---- MODULE Spec2Model ----
(***************************************************************************)
(* Model of the Zoom webhook backend (src/index.js): webhook verification, *)
(* the URL-validation handshake, the participant registry, the OAuth token *)
(* cache and the transcript pipeline.                                      *)
(*                                                                         *)
(* Strings are sequences of atoms (an atom stands for a run of characters) *)
(* so that template strings are real concatenations.  HMAC-SHA256 is the   *)
(* symbolic keyed digest [key, data]: two digests are equal exactly when   *)
(* key and data are equal (no collisions, no inversion).                   *)
(***************************************************************************)
EXTENDS Integers, Sequences, FiniteSets, TLC

VARIABLES
  env,                   \* process.env: secret, zoomCreds, openaiKey
  now,                   \* Date.now(), in milliseconds
  zoomAccessTokenCache,  \* index.js:139  { token, expiresAt }
  meetingParticipants,   \* index.js:485  Map meetingUuid -> Set of participant objects
  last,                  \* the request received last, and what the endpoint answered
  runs,                  \* in-flight handleTranscriptCompleted runs (one per request)
  calls,                 \* direct getZoomAccessToken calls (token specification)
  known,                 \* digests an outside sender has read from responses
  log,                   \* console.log entries that carry token material
  grant,                 \* the token response the cache content was taken from
  server,                \* the Node process: "listening" (index.js:126) or "exited"
  unit                   \* the last direct call of a function: its arguments, its outcome

vars == <<env, now, zoomAccessTokenCache, meetingParticipants, last, runs, calls,
          known, log, grant, server, unit>>

----------------------------------------------------------------------------
(* Bounds of the model *)

MaxTicks == 2          \* clock steps, of one second each
MaxRuns == 2           \* concurrent transcript pipeline runs
MaxCalls == 2          \* concurrent direct getZoomAccessToken calls
MaxParticipants == 2   \* entries kept per meeting
MaxLines == 3          \* lines of a generated subtitle text

(* Program constants *)

SafetyBufferSeconds == 300   \* index.js:251
MsPerSecond == 1000          \* index.js:251
TokenPrefixChars == 20       \* index.js:231, index.js:591
MaxSpeakerChars == 50        \* index.js:457

----------------------------------------------------------------------------
(* Strings, digests, headers *)

Keys == {"", "k"}                    \* "" is what `SECRET || ''` yields when unset
Timestamps == {<<"1">>, <<"2">>}

HMAC(key, data) == [key |-> key, data |-> data]
NoDigest == HMAC("", <<>>)

\* index.js:75  `v0:${timestamp}:${req.rawBody.toString()}`
message_dropTimestamp(timestamp, rawBody) == <<"v0", ":">> \o <<":">> \o rawBody
message(timestamp, rawBody) == <<"v0", ":">> \o timestamp \o <<":">> \o rawBody

\* index.js:76-79
hashForVerify(secretToken, timestamp, rawBody) ==
  HMAC(secretToken, message(timestamp, rawBody))

\* a header value that is a signature string: prefix followed by a hex digest
SigValue(prefix, hex) == [kind |-> "value", prefix |-> prefix, hex |-> hex]
AbsentSig == [kind |-> "absent", prefix |-> "", hex |-> NoDigest]

\* index.js:80  `v0=${hashForVerify}`
expectedSignature_unsetRejects(secretToken, timestamp, rawBody) ==
  IF secretToken = "" THEN AbsentSig
  ELSE SigValue("v0=", hashForVerify(secretToken, timestamp, rawBody))
expectedSignature(secretToken, timestamp, rawBody) ==
  SigValue("v0=", hashForVerify(secretToken, timestamp, rawBody))

TsValue(v) == [kind |-> "value", v |-> v]
AbsentTs == [kind |-> "absent", v |-> <<>>]
EmptyTs == TsValue(<<>>)

\* JavaScript truthiness of a header: absent (undefined) and '' are falsy
TruthySig(s) == s.kind = "value"
TruthyTs(t) == t.kind = "value" /\ t.v # <<>>

----------------------------------------------------------------------------
(* Request bodies *)

Meetings == {"m1"}
Pids == {"p1"}

EvValidation == "endpoint.url_validation"
EvJoined == "meeting.participant_joined"
EvLeft == "meeting.participant_left"
EvRecording == "recording.completed"
EvTranscript == "recording.transcript_completed"
EvOther == "meeting.started"

NoPlainToken == [present |-> FALSE, v |-> <<>>]
PlainToken(v) == [present |-> TRUE, v |-> v]

\* payload: "none" (body.payload undefined), "noobj" (payload.object undefined), "ok"
\* files:   "undefined" (no recording_files), "TRANSCRIPT", "transcript", "audio"
\* parts:   "undefined" (no payload.object.participants), or the id listed there
Body(event, payload, plainToken, uuid, pid, files, parts) ==
  [event |-> event, payload |-> payload, plainToken |-> plainToken, uuid |-> uuid,
   pid |-> pid, files |-> files, parts |-> parts]

ParticipantBodies ==
  {Body(e, "ok", NoPlainToken, m, p, "undefined", "undefined") :
     e \in {EvJoined, EvLeft}, m \in Meetings, p \in Pids}

MalformedBodies ==
  {Body(e, pl, NoPlainToken, "", "", "undefined", "undefined") :
     e \in {EvJoined, EvRecording, EvTranscript}, pl \in {"none", "noobj"}}

RecordingBodies ==
  {Body(EvRecording, "ok", NoPlainToken, m, "", "TRANSCRIPT", "undefined") : m \in Meetings}

TranscriptBodies ==
  {Body(EvTranscript, "ok", NoPlainToken, m, "", f, "undefined") :
     m \in Meetings, f \in {"undefined", "TRANSCRIPT", "transcript", "audio"}}
  \cup {Body(EvTranscript, "ok", NoPlainToken, m, "", "TRANSCRIPT", p) :
          m \in Meetings, p \in Pids}

OtherBodies == {Body(EvOther, "ok", NoPlainToken, "m1", "", "undefined", "undefined")}

EventBodies ==
  ParticipantBodies \cup MalformedBodies \cup RecordingBodies \cup TranscriptBodies
    \cup OtherBodies

\* JSON.stringify of a body (injective on the bodies of the model)
Stringify(b) ==
  <<"{", b.event, b.payload, b.uuid, b.pid, b.files, b.parts,
    IF b.plainToken.present THEN "plainToken" ELSE "-">> \o b.plainToken.v \o <<"}">>

JoinBody == Body(EvJoined, "ok", NoPlainToken, "m1", "p1", "undefined", "undefined")
PipelineBody == Body(EvTranscript, "ok", NoPlainToken, "m1", "", "TRANSCRIPT", "p1")

\* plain tokens a validation challenge may carry: an ordinary one, the empty
\* string, and one that spells the signed message of another request
SignedMessageToken == <<"v0", ":", "1", ":">> \o Stringify(PipelineBody)
PlainTokens == {<<"plain">>, SignedMessageToken}

ValidationBodies ==
  {Body(EvValidation, "ok", PlainToken(p), "", "", "undefined", "undefined") :
     p \in PlainTokens \cup {<<>>}}
  \cup {Body(EvValidation, pl, NoPlainToken, "", "", "undefined", "undefined") :
     pl \in {"none", "ok"}}

\* express.json(): req.body parsed from the raw bytes (JSON.parse, the inverse
\* of JSON.stringify)
Parse(raw) ==
  Body(raw[2], raw[3],
       IF raw[8] = "plainToken" THEN PlainToken(SubSeq(raw, 9, Len(raw) - 1))
       ELSE NoPlainToken,
       raw[4], raw[5], raw[6], raw[7])

RawValue(v) == [present |-> TRUE, v |-> v]
NoRawBody == [present |-> FALSE, v |-> <<>>]   \* no JSON body: req.rawBody undefined

----------------------------------------------------------------------------
(* Requests *)

Request(by, raw, signature, timestamp) ==
  [by |-> by, raw |-> raw, signature |-> signature, timestamp |-> timestamp]

NoRequest == Request("nobody", NoRawBody, AbsentSig, AbsentTs)

PipelineRaw == Stringify(PipelineBody)
JoinRaw == Stringify(JoinBody)

\* test/test_full_flow.js:57-61  sendWebhookEvent: how a sender signs
sendWebhookEvent_signature(SECRET, timestamp, body) ==
  SigValue("v0=", HMAC(SECRET, <<"v0", ":">> \o timestamp \o <<":">> \o body))

\* signatures a sender computes itself: it signs a (key, timestamp, body) of its
\* choice, which may differ from what the request then carries
OwnSignatures(keys) ==
  {sendWebhookEvent_signature(k, t, r) :
     k \in keys, t \in Timestamps, r \in {PipelineRaw, JoinRaw}}
  \cup {sendWebhookEvent_signature(k, <<>>, PipelineRaw) : k \in keys}

\* signatures a sender builds from digests it has read in responses
ReplayedSignatures == {SigValue("v0=", HMAC(k, p)) : k \in Keys, p \in PlainTokens}

TsHeaders == {AbsentTs, EmptyTs} \cup {TsValue(t) : t \in Timestamps}

\* one event body under every combination of headers
ShapedRequests ==
  {Request("holder", RawValue(PipelineRaw), s, t) :
     s \in {AbsentSig} \cup OwnSignatures(Keys), t \in TsHeaders}

\* every body of the model, signed as the test scripts sign, or not signed
SignedRequest(by, key, b) ==
  Request(by, RawValue(Stringify(b)),
          sendWebhookEvent_signature(key, <<"1">>, Stringify(b)), TsValue(<<"1">>))
UnsignedRequest(by, b) == Request(by, RawValue(Stringify(b)), AbsentSig, AbsentTs)

PlainChallenge ==
  Body(EvValidation, "ok", PlainToken(<<"plain">>), "", "", "undefined", "undefined")

HolderRequests ==
  ShapedRequests
    \cup {SignedRequest("holder", k, b) :
            k \in Keys,
            b \in (EventBodies \cup {PlainChallenge})
                    \ {Body(EvTranscript, "ok", NoPlainToken, "m1", "", "TRANSCRIPT",
                            "undefined")}}
    \cup {UnsignedRequest("holder", b) : b \in ValidationBodies}
    \cup {Request("holder", NoRawBody, AbsentSig, AbsentTs),
          Request("holder", NoRawBody, SigValue("v0=", NoDigest), TsValue(<<"1">>))}

\* requests of a sender who does not hold the shared secret
OutsiderRequests ==
  {Request("outsider", RawValue(PipelineRaw), s, TsValue(<<"1">>)) :
     s \in {AbsentSig} \cup ReplayedSignatures
            \cup {sendWebhookEvent_signature(k, <<"1">>, PipelineRaw) : k \in Keys}}
  \cup {UnsignedRequest("outsider",
          Body(EvValidation, "ok", PlainToken(SignedMessageToken), "", "", "undefined",
               "undefined"))}

\* what a sender is able to send: the holder signs whole events with the shared
\* secret (and may send any of the shaped requests); an outside sender signs
\* with another key (the empty key is known to everyone), or replays a digest
\* it has read
Sendable(req) ==
  IF req.by = "holder"
    THEN req \in ShapedRequests \/ req.signature.kind = "absent"
           \/ ~req.raw.present \/ req.signature.hex.key = env.secret
    ELSE req.signature.kind = "absent" \/ req.signature.hex.key # env.secret
           \/ req.signature.hex.key = "" \/ req.signature.hex \in known

VerifyRequests == {req \in HolderRequests \cup OutsiderRequests : Sendable(req)}

\* the requests of the server specification: the events of a meeting, signed by
\* the holder, and one request of each kind that is turned away
ServerBodies ==
  {Body(e, "ok", NoPlainToken, "m1", "p1", "undefined", "undefined") : e \in {EvJoined, EvLeft}}
  \cup {Body(EvTranscript, "ok", NoPlainToken, "m1", "", f, "undefined") :
          f \in {"TRANSCRIPT", "transcript"}}
  \cup {PipelineBody}
  \cup RecordingBodies \cup OtherBodies \cup {PlainChallenge}
ServerRequests ==
  {SignedRequest("holder", "k", b) : b \in ServerBodies}
  \cup {UnsignedRequest("holder", PipelineBody)}
  \cup {Request("holder", NoRawBody, SigValue("v0=", NoDigest), TsValue(<<"1">>))}

\* the requests of the meeting specification: the signed events of one meeting
MeetingBodies ==
  {JoinBody, PipelineBody,
   Body(EvLeft, "ok", NoPlainToken, "m1", "p1", "undefined", "undefined"),
   Body(EvTranscript, "ok", NoPlainToken, "m1", "", "TRANSCRIPT", "undefined")}
MeetingRequests == {SignedRequest("holder", "k", b) : b \in MeetingBodies}

----------------------------------------------------------------------------
(* Access tokens, token endpoint responses, the token cache *)

Token(id, len) == [id |-> id, len |-> len]
Null == Token("null", 0)
Undefined == Token("undefined", 0)
Tokens == {Token("t1", 32), Token("t2", 16)}

\* JavaScript truthiness of a cached token value
Truthy(tok) == tok \notin {Null, Undefined}

Seconds(v) == [defined |-> TRUE, v |-> v]
NoSeconds == [defined |-> FALSE, v |-> 0]       \* expires_in missing from the response
Lifetimes == {299, 300, 301}

TokenResponse(ok, cause, hasData, access_token, expires_in) ==
  [ok |-> ok, cause |-> cause, hasData |-> hasData, access_token |-> access_token,
   expires_in |-> expires_in]

\* what the token endpoint may answer: a 2xx response with a data object (which
\* may lack fields), a 2xx response without data, a non-2xx status, no response
FailedTokenResponses ==
  {TokenResponse(FALSE, c, FALSE, Undefined, NoSeconds) : c \in {"status", "network"}}
TokenResponses ==
  {TokenResponse(TRUE, "", TRUE, a, Seconds(n)) : a \in Tokens, n \in Lifetimes}
  \cup {TokenResponse(TRUE, "", TRUE, Undefined, Seconds(301)),
        TokenResponse(TRUE, "", TRUE, Token("t1", 32), NoSeconds),
        TokenResponse(TRUE, "", FALSE, Undefined, NoSeconds)}
  \cup FailedTokenResponses

\* the answers of the token endpoint in the server specification
ServerTokenResponses ==
  {TokenResponse(TRUE, "", TRUE, Token("t1", 32), Seconds(301)),
   TokenResponse(TRUE, "", FALSE, Undefined, NoSeconds)}
  \cup FailedTokenResponses

\* index.js:139-142
EmptyCache == [token |-> Null, expiresAt |-> 0]

\* the response the cache content was taken from, and when it arrived
Grant(resp, t) ==
  [at |-> t, access_token |-> resp.access_token, expires_in |-> resp.expires_in.v]
NoGrant == [at |-> 0, access_token |-> Null, expires_in |-> 0]

\* index.js:149  the cached-token test of getZoomAccessToken
CacheHit_atExpiry(forceRefresh, cache, t) ==
  ~forceRefresh /\ Truthy(cache.token) /\ t <= cache.expiresAt
CacheHit_never(forceRefresh, cache, t) == FALSE
CacheHit_ignoresExpiry(forceRefresh, cache, t) == ~forceRefresh /\ Truthy(cache.token)
CacheHit(forceRefresh, cache, t) ==
  ~forceRefresh /\ Truthy(cache.token) /\ t < cache.expiresAt

\* index.js:154-157  a forced refresh clears the cache first
CacheOnEntry_keeps(forceRefresh, cache) == cache
CacheOnEntry(forceRefresh, cache) == IF forceRefresh THEN EmptyCache ELSE cache

\* index.js:159-161
CredentialsMissing == ~env.zoomCreds

\* index.js:202-246  the awaited request rejects (non-2xx, network error), the
\* destructuring of a missing data object throws, or `new Date(NaN).toISOString()`
\* throws for a missing expires_in (index.js:234)
ResponseThrows(resp) == ~resp.ok \/ ~resp.hasData \/ ~resp.expires_in.defined

\* index.js:249-252
CacheOnSuccess_noBuffer(resp, t) ==
  [token |-> resp.access_token, expiresAt |-> t + (resp.expires_in.v * MsPerSecond)]
CacheOnSuccess(resp, t) ==
  [token |-> resp.access_token,
   expiresAt |-> t + ((resp.expires_in.v - SafetyBufferSeconds) * MsPerSecond)]

Min(a, b) == IF a < b THEN a ELSE b

\* a log entry that shows `chars` leading characters of the token `id`
\* (chars = 0: only its length is printed)
LogEntry(site, tok, chars) == [site |-> site, id |-> tok.id, chars |-> chars]
LogOf(site, tok, chars) == IF Truthy(tok) THEN {LogEntry(site, tok, chars)} ELSE {}

\* index.js:230-231, 245  what getZoomAccessToken prints of a response
LogOnResponse(resp) ==
  IF resp.ok /\ resp.hasData
    THEN LogOf("index.js:230", resp.access_token, 0)
           \cup LogOf("index.js:231", resp.access_token,
                      Min(resp.access_token.len, TokenPrefixChars))
           \cup (IF resp.expires_in.defined
                   THEN LogOf("index.js:245", resp.access_token, resp.access_token.len)
                   ELSE {})
    ELSE {}

\* index.js:590-591  what handleTranscriptCompleted prints of the token
LogOnPipelineToken(tok) ==
  LogOf("index.js:590", tok, 0)
    \cup LogOf("index.js:591", tok, Min(tok.len, TokenPrefixChars))

----------------------------------------------------------------------------
(* State *)

RunIds == 1..MaxRuns
CallIds == 1..MaxCalls

\* a handleTranscriptCompleted run: where it is suspended, what it holds
\* uuid, parts, accessToken: locals of the activation; registered: the ids in
\* the registry entry of the meeting when the event arrived (the handler does
\* not look at it); registryReads: accesses of meetingParticipants by the handler; roster:
\* the participants argument of generateFeedback ("none" before the call);
\* recipients: the participants argument of sendFeedbackToParticipants
NoRoster == <<"none">>
IdleRun_acknowledged ==
  [pc |-> "idle", uuid |-> "", parts |-> "undefined", accessToken |-> Undefined,
   registered |-> {}, registryReads |-> 0, roster |-> NoRoster,
   stages |-> <<>>, status |-> 200, tokenRequests |-> 0, downloads |-> 0, chats |-> 0,
   feedback |-> "none", recipients |-> NoRoster, failed |-> FALSE]
IdleRun ==
  [pc |-> "idle", uuid |-> "", parts |-> "undefined", accessToken |-> Undefined,
   registered |-> {}, registryReads |-> 0, roster |-> NoRoster,
   stages |-> <<>>, status |-> 0, tokenRequests |-> 0, downloads |-> 0, chats |-> 0,
   feedback |-> "none", recipients |-> NoRoster, failed |-> FALSE]

IdleCall ==
  [pc |-> "idle", forceRefresh |-> FALSE, requests |-> 0, result |-> Undefined]

\* a direct call of a function of index.js, as the test scripts make them:
\* pc is "calling" before the call, "awaiting" while it is suspended, "done" after
\* requests: the outbound requests the call has made; sent: the bytes of audio
\* in the body of its request
Unit(fn, pc, input, output) ==
  [fn |-> fn, pc |-> pc, input |-> input, output |-> output, requests |-> 0, sent |-> 0]
NoUnit == Unit("none", "done", <<>>, <<>>)

NoResponseBody == [plainToken |-> <<>>, encryptedToken |-> NoDigest]
Last(req, status, handler, body) ==
  [req |-> req, status |-> status, handler |-> handler, body |-> body]

Environments ==
  [secret : Keys, zoomCreds : BOOLEAN, openaiKey : BOOLEAN]

Configured(environments) ==
  /\ env \in environments
  /\ now = 0
  /\ zoomAccessTokenCache = EmptyCache
  /\ meetingParticipants = <<>>
  /\ last = Last(NoRequest, 0, "none", NoResponseBody)
  /\ runs = [r \in RunIds |-> IdleRun]
  /\ calls = [c \in CallIds |-> IdleCall]
  /\ known = {}
  /\ log = {}
  /\ grant = NoGrant
  /\ server = "listening"

\* the server with its webhook secret set
Init == Configured({e \in Environments : e.secret = "k"}) /\ unit = NoUnit

\* the endpoint with and without a webhook secret
VerifyInit == Configured({e \in Environments : e.zoomCreds /\ e.openaiKey}) /\ unit = NoUnit

\* the server fully configured, with and without an OpenAI key
MeetingInit ==
  Configured({e \in Environments : e.secret = "k" /\ e.zoomCreds}) /\ unit = NoUnit

\* the token manager with and without OAuth credentials
TokenInit ==
  Configured({e \in Environments : e.secret = "k" /\ e.openaiKey}) /\ unit = NoUnit

----------------------------------------------------------------------------
(* The webhook endpoint, index.js:43-120 *)

EmptyBody == Body("undefined", "none", NoPlainToken, "", "", "undefined", "undefined")

\* req.body
BodyOf(req) == IF req.raw.present THEN Parse(req.raw.v) ELSE EmptyBody

\* index.js:47-85  which way the request leaves the verification code
Verdict(req) ==
  IF BodyOf(req).event = EvValidation THEN "validation"
  ELSE IF ~TruthySig(req.signature) \/ ~TruthyTs(req.timestamp) THEN "headers missing"
  ELSE IF ~req.raw.present THEN "throws"
  ELSE IF req.signature # expectedSignature(env.secret, req.timestamp.v, req.raw.v)
    THEN "invalid signature"
  ELSE "verified"

\* index.js:50-51  `req.body.payload && req.body.payload.plainToken`, tested with `!`
plainTokenOf(body) ==
  IF body.payload = "ok" /\ body.plainToken.present THEN body.plainToken.v ELSE <<>>

\* index.js:55-58
hashForValidate_unkeyed(plainToken) == HMAC("", plainToken)
hashForValidate(plainToken) == HMAC(env.secret, plainToken)

\* index.js:46-64
ReceiveValidation(req) ==
  /\ LET plainToken == plainTokenOf(BodyOf(req)) IN
       IF plainToken = <<>>
         THEN /\ last' = Last(req, 400, "none", NoResponseBody)
              /\ known' = known
         ELSE /\ last' = Last(req, 200, "none",
                              [plainToken |-> plainToken,
                               encryptedToken |-> hashForValidate(plainToken)])
              /\ known' = IF req.by = "outsider"
                            THEN known \cup {hashForValidate(plainToken)}
                            ELSE known
  /\ UNCHANGED <<unit, server, env, now, zoomAccessTokenCache, meetingParticipants, runs, calls, log,
                 grant>>

\* index.js:70-73, 82-85
ReceiveRejected(req) ==
  /\ last' = Last(req, 401, "none", NoResponseBody)
  /\ UNCHANGED <<unit, server, env, now, zoomAccessTokenCache, meetingParticipants, runs, calls, known,
                 log, grant>>

\* index.js:75  req.rawBody is undefined: `.toString()` throws in the async
\* handler, outside its try block.  Express 5 passes the rejected promise on
\* and answers 500.  Express 4 leaves it unhandled: no response is sent
\* (status 0), and the unhandled rejection either is only warned about or, by
\* the default of Node 15 and later, ends the process.
ReceiveBodiless(req) ==
  /\ \E outcome \in {"answers 500", "no response", "process exits"} :
       /\ last' = Last(req, IF outcome = "answers 500" THEN 500 ELSE 0, "none",
                       NoResponseBody)
       /\ server' = IF outcome = "process exits" THEN "exited" ELSE "listening"
  /\ UNCHANGED <<unit, env, now, zoomAccessTokenCache, meetingParticipants, runs, calls,
                 known, log, grant>>

RECURSIVE RemoveFirst(_, _)
\* index.js:517-522  delete the first entry whose id matches
RemoveFirst(seq, id) ==
  IF seq = <<>> THEN <<>>
  ELSE IF Head(seq) = id THEN Tail(seq)
  ELSE <<Head(seq)>> \o RemoveFirst(Tail(seq), id)

\* index.js:502-506
ParticipantsOf(registry, meetingUuid) ==
  IF meetingUuid \in DOMAIN registry THEN registry[meetingUuid] ELSE <<>>

\* the ids of the participant objects of an entry
IdsOf(participants) == {participants[i] : i \in 1..Len(participants)}

SetEntry(registry, meetingUuid, participants) ==
  [m \in DOMAIN registry \cup {meetingUuid} |->
     IF m = meetingUuid THEN participants ELSE registry[m]]

\* index.js:490-526  the registry after handleParticipantEvent (payload.object present)
handleParticipantEvent(eventType, body, registry) ==
  IF body.payload # "ok" THEN registry
  ELSE IF eventType = EvJoined
    THEN SetEntry(registry, body.uuid, Append(ParticipantsOf(registry, body.uuid), body.pid))
  ELSE SetEntry(registry, body.uuid, RemoveFirst(ParticipantsOf(registry, body.uuid), body.pid))

\* index.js:491, 532  `payload.object` on an undefined payload throws a TypeError
\* that the switch's catch turns into 500 (index.js:113-116)
PayloadThrows(body) == body.payload = "none"

\* index.js:97-100
ReceiveParticipantEvent_strict(req) ==
  /\ LET body == BodyOf(req)
         known_ == body.pid \in IdsOf(ParticipantsOf(meetingParticipants, body.uuid))
     IN
       /\ IF PayloadThrows(body) \/ (body.event = EvJoined /\ known_)
              \/ (body.event = EvLeft /\ ~known_)
            THEN /\ last' = Last(req, 500, "participant", NoResponseBody)
                 /\ meetingParticipants' = meetingParticipants
            ELSE /\ meetingParticipants' =
                      handleParticipantEvent(body.event, body, meetingParticipants)
                 /\ last' = Last(req, 200, "participant", NoResponseBody)
  /\ UNCHANGED <<unit, server, env, now, zoomAccessTokenCache, runs, calls, known, log, grant>>
ReceiveParticipantEvent(req) ==
  /\ LET body == BodyOf(req) IN
       /\ IF PayloadThrows(body)
            THEN /\ last' = Last(req, 500, "participant", NoResponseBody)
                 /\ meetingParticipants' = meetingParticipants
            ELSE /\ body.event = EvJoined /\ body.payload = "ok"
                      => Len(ParticipantsOf(meetingParticipants, body.uuid)) < MaxParticipants
                 /\ meetingParticipants' =
                      handleParticipantEvent(body.event, body, meetingParticipants)
                 /\ last' = Last(req, 200, "participant", NoResponseBody)
  /\ UNCHANGED <<unit, server, env, now, zoomAccessTokenCache, runs, calls, known, log, grant>>

\* index.js:102-104, 531-544
ReceiveRecordingCompleted(req) ==
  /\ last' = Last(req, IF PayloadThrows(BodyOf(req)) THEN 500 ELSE 200, "recording",
                  NoResponseBody)
  /\ UNCHANGED <<unit, server, env, now, zoomAccessTokenCache, meetingParticipants, runs, calls, known,
                 log, grant>>

\* index.js:110-111, 119
ReceiveUnhandled_resets(req) ==
  /\ last' = Last(req, 200, "unhandled", NoResponseBody)
  /\ meetingParticipants' = <<>>
  /\ zoomAccessTokenCache' = EmptyCache
  /\ UNCHANGED <<unit, server, env, now, runs, calls, known, log, grant>>
ReceiveUnhandled(req) ==
  /\ last' = Last(req, 200, "unhandled", NoResponseBody)
  /\ UNCHANGED <<unit, server, env, now, zoomAccessTokenCache, meetingParticipants, runs, calls, known,
                 log, grant>>

----------------------------------------------------------------------------
(* getZoomAccessToken, index.js:147-289 *)

\* index.js:149-161  how a call proceeds before its first await
TokenEntry(forceRefresh) ==
  IF CacheHit(forceRefresh, zoomAccessTokenCache, now) THEN "cached"
  ELSE IF CredentialsMissing THEN "throws"
  ELSE "requests"

\* the cache after the synchronous part of a call
CacheAfterEntry(forceRefresh) ==
  IF TokenEntry(forceRefresh) = "cached" THEN zoomAccessTokenCache
  ELSE CacheOnEntry(forceRefresh, zoomAccessTokenCache)

GrantAfterEntry(forceRefresh) ==
  IF CacheAfterEntry(forceRefresh) = zoomAccessTokenCache THEN grant ELSE NoGrant

\* the lowest slot that holds no suspended run (call)
FreeRun(r) ==
  /\ runs[r].pc \in {"idle", "done"}
  /\ \A q \in RunIds : q < r => runs[q].pc \notin {"idle", "done"}
FreeCall(c) ==
  /\ calls[c].pc \in {"idle", "returned", "threw"}
  /\ \A q \in CallIds : q < c => calls[q].pc \notin {"idle", "returned", "threw"}

\* a direct call getZoomAccessToken(forceRefresh), up to its first await
CallGetZoomAccessToken(c, forceRefresh) ==
  /\ FreeCall(c)
  /\ LET entry == TokenEntry(forceRefresh) IN
       calls' = [calls EXCEPT ![c] =
         [pc |-> CASE entry = "cached" -> "returned"
                   [] entry = "throws" -> "threw"
                   [] OTHER -> "awaiting",
          forceRefresh |-> forceRefresh,
          requests |-> IF entry = "requests" THEN 1 ELSE 0,
          result |-> IF entry = "cached" THEN zoomAccessTokenCache.token ELSE Undefined]]
  /\ zoomAccessTokenCache' = CacheAfterEntry(forceRefresh)
  /\ grant' = GrantAfterEntry(forceRefresh)
  /\ UNCHANGED <<unit, server, env, now, meetingParticipants, last, runs, known, log>>

\* index.js:202-288  the token endpoint answers a suspended direct call
TokenEndpointResponds_tokenOnly(c, resp) ==
  /\ calls[c].pc = "awaiting"
  /\ log' = log \cup LogOnResponse(resp)
  /\ IF ResponseThrows(resp)
       THEN /\ calls' = [calls EXCEPT ![c].pc = "threw"]
            /\ UNCHANGED <<zoomAccessTokenCache, grant>>
       ELSE /\ calls' = [calls EXCEPT ![c].pc = "returned",
                                      ![c].result = resp.access_token]
            /\ zoomAccessTokenCache' =
                 [zoomAccessTokenCache EXCEPT !.token = resp.access_token]
            /\ grant' = Grant(resp, now)
  /\ UNCHANGED <<unit, server, env, now, meetingParticipants, last, runs, known>>
TokenEndpointResponds(c, resp) ==
  /\ calls[c].pc = "awaiting"
  /\ log' = log \cup LogOnResponse(resp)
  /\ IF ResponseThrows(resp)
       THEN /\ calls' = [calls EXCEPT ![c].pc = "threw"]
            /\ UNCHANGED <<zoomAccessTokenCache, grant>>
       ELSE /\ calls' = [calls EXCEPT ![c].pc = "returned",
                                      ![c].result = resp.access_token]
            /\ zoomAccessTokenCache' = CacheOnSuccess(resp, now)
            /\ grant' = Grant(resp, now)
  /\ UNCHANGED <<unit, server, env, now, meetingParticipants, last, runs, known>>

\* the clock advances
Tick ==
  /\ now < MaxTicks * MsPerSecond
  /\ now' = now + MsPerSecond
  /\ UNCHANGED <<unit, server, env, zoomAccessTokenCache, meetingParticipants, last, runs, calls, known,
                 log, grant>>

----------------------------------------------------------------------------
(* handleTranscriptCompleted, index.js:549-673 *)

\* index.js:641  `payload.object.participants || []`
RosterOf_noDefault(parts) == <<parts>>
RosterOf(parts) == IF parts = "undefined" THEN <<>> ELSE <<parts>>

DownloadResponses == {"fails", "string", "object"}
ChatResponses == {"fails", "json", "fenced", "text", "no choices"}

\* the stage has been entered by the run
Reached(run, stage) == \E i \in DOMAIN run.stages : run.stages[i] = stage

\* the handler returns (its locals are gone) and index.js:119 answers 200
Finished_retries(run, failed) ==
  IF failed /\ run.pc = "token" /\ run.tokenRequests < 2
    THEN [run EXCEPT !.tokenRequests = @ + 1]
    ELSE [run EXCEPT !.pc = "done", !.status = 200, !.failed = failed,
                     !.uuid = "", !.parts = "undefined", !.accessToken = Undefined,
                     !.registered = {}]
Finished_surfaces(run, failed) ==
  [run EXCEPT !.pc = "done", !.status = IF failed THEN 500 ELSE 200, !.failed = failed,
              !.uuid = "", !.parts = "undefined", !.accessToken = Undefined,
              !.registered = {}]
Finished(run, failed) ==
  [run EXCEPT !.pc = "done", !.status = 200, !.failed = failed,
              !.uuid = "", !.parts = "undefined", !.accessToken = Undefined,
              !.registered = {}]

\* index.js:552-571  the handler before it asks for a token: "throws" for a
\* payload it cannot read (caught at index.js:650), "returns" when no file has
\* file_type 'TRANSCRIPT', else "continues"
TranscriptEntry_dedup(body) ==
  IF body.payload # "ok" \/ body.files = "undefined" THEN "throws"
  ELSE IF body.files # "TRANSCRIPT" THEN "returns"
  ELSE IF \E r \in RunIds : runs[r].pc \notin {"idle", "done"} /\ runs[r].uuid = body.uuid
    THEN "returns"
  ELSE "continues"
TranscriptEntry_anyFile(body) ==
  IF body.payload # "ok" \/ body.files = "undefined" THEN "throws" ELSE "continues"
TranscriptEntry(body) ==
  IF body.payload # "ok" \/ body.files = "undefined" THEN "throws"
  ELSE IF body.files # "TRANSCRIPT" THEN "returns"
  ELSE "continues"

\* index.js:106-108, 549-589  a verified transcript-completed event, up to its
\* first await (or to its response, when it never suspends)
ReceiveTranscriptCompleted(req, r) ==
  /\ FreeRun(r)
  /\ LET body == BodyOf(req)
         start == [IdleRun EXCEPT !.uuid = body.uuid, !.parts = body.parts,
                                  !.registered =
                                     IdsOf(ParticipantsOf(meetingParticipants,
                                                          body.uuid))]
         entry == TranscriptEntry(body)
         token == TokenEntry(TRUE)
     IN
       IF entry # "continues"
         THEN /\ runs' = [runs EXCEPT ![r] = Finished(start, entry = "throws")]
              /\ last' = Last(req, 200, "transcript", NoResponseBody)
              /\ UNCHANGED <<zoomAccessTokenCache, grant>>
         ELSE /\ zoomAccessTokenCache' = CacheAfterEntry(TRUE)
              /\ grant' = GrantAfterEntry(TRUE)
              /\ IF token = "throws"
                   THEN /\ runs' = [runs EXCEPT ![r] =
                               Finished([start EXCEPT !.stages = <<"token">>], TRUE)]
                        /\ last' = Last(req, 200, "transcript", NoResponseBody)
                   ELSE /\ runs' = [runs EXCEPT ![r] =
                               [start EXCEPT !.pc = "token", !.stages = <<"token">>,
                                             !.tokenRequests = 1]]
                        /\ last' = Last(req, 0, "transcript", NoResponseBody)
  /\ UNCHANGED <<unit, server, env, now, meetingParticipants, calls, known, log>>

\* index.js:202-288, 589-619  the token endpoint answers a suspended run, which
\* then goes on to request the download from the URL of the webhook payload
PipelineTokenResponse(r, resp) ==
  /\ runs[r].pc = "token"
  /\ IF ResponseThrows(resp)
       THEN /\ runs' = [runs EXCEPT ![r] = Finished(runs[r], TRUE)]
            /\ log' = log \cup LogOnResponse(resp)
            /\ UNCHANGED <<zoomAccessTokenCache, grant>>
       ELSE /\ runs' = [runs EXCEPT ![r] =
                   [runs[r] EXCEPT !.pc = "download", !.accessToken = resp.access_token,
                                   !.stages = Append(@, "download"), !.downloads = 1]]
            /\ log' = log \cup LogOnResponse(resp) \cup LogOnPipelineToken(resp.access_token)
            /\ zoomAccessTokenCache' = CacheOnSuccess(resp, now)
            /\ grant' = Grant(resp, now)
  /\ UNCHANGED <<unit, server, env, now, meetingParticipants, last, calls, known>>

\* index.js:720-732  generateFeedback without an API key returns the mock at once
\* index.js:641, 648  the list passed to sendFeedbackToParticipants: the local
\* constant that was passed to generateFeedback
Recipients_fromRegistry(run) == ParticipantsOf(meetingParticipants, run.uuid)
Recipients(run) == run.roster

\* index.js:609-648  the download answers; on a string body the run goes on to
\* generateFeedback (raw text, payload participants) and, without an API key,
\* through sendFeedbackToParticipants to its end
PipelineDownloadResponse(r, answer) ==
  /\ runs[r].pc = "download"
  /\ runs' = [runs EXCEPT ![r] =
       IF answer # "string" THEN Finished(runs[r], TRUE)
       ELSE IF ~env.openaiKey
         THEN Finished([runs[r] EXCEPT !.stages = @ \o <<"feedback", "dispatch">>,
                                        !.roster = RosterOf(runs[r].parts),
                                        !.recipients =
                                           Recipients([runs[r] EXCEPT !.roster =
                                                         RosterOf(runs[r].parts)]),
                                        !.feedback = "mock"], FALSE)
       ELSE [runs[r] EXCEPT !.pc = "chat", !.stages = Append(@, "feedback"),
                            !.roster = RosterOf(runs[r].parts), !.chats = 1,
                            !.registered = {}]]
  /\ UNCHANGED <<unit, server, env, now, zoomAccessTokenCache, meetingParticipants, last, calls, known,
                 log, grant>>

\* index.js:792-821  what generateFeedback returns for a chat-completion answer
FeedbackOf(answer) ==
  CASE answer = "json" -> "parsed"
    [] answer \in {"fenced", "text"} -> "fallback"
    [] OTHER -> "error"

\* index.js:782-821, 645-648  the chat completion answers; feedback is dispatched
PipelineChatResponse(r, answer) ==
  /\ runs[r].pc = "chat"
  /\ runs' = [runs EXCEPT ![r] =
       Finished([runs[r] EXCEPT !.stages = Append(@, "dispatch"),
                                !.recipients = Recipients(runs[r]),
                                !.feedback = FeedbackOf(answer)], FALSE)]
  /\ UNCHANGED <<unit, server, env, now, zoomAccessTokenCache, meetingParticipants, last, calls, known,
                 log, grant>>

\* index.js:95-112  the event switch
Dispatch(req) ==
  LET eventType == BodyOf(req).event IN
    CASE eventType \in {EvJoined, EvLeft} -> ReceiveParticipantEvent(req)
      [] eventType = EvRecording -> ReceiveRecordingCompleted(req)
      [] eventType = EvTranscript -> \E r \in RunIds : ReceiveTranscriptCompleted(req, r)
      [] OTHER -> ReceiveUnhandled(req)

\* index.js:43-120  app.post('/api/zoom-webhook'): one request, up to its
\* response or to the first await of its handler
Webhook(req) ==
  LET verdict == Verdict(req) IN
    CASE verdict = "validation" -> ReceiveValidation(req)
      [] verdict \in {"headers missing", "invalid signature"} -> ReceiveRejected(req)
      [] verdict = "throws" -> ReceiveBodiless(req)
      [] OTHER -> Dispatch(req)

----------------------------------------------------------------------------
(* JavaScript strings and values of the functions called directly *)

LongLabel == "A Participant With A Display Name Of Fifty Letters"

\* String.prototype.length of an atom
Chars(a) ==
  CASE a = LongLabel -> 50
    [] a = "[object Object]" -> 15
    [] a = "undefined" -> 9
    [] a = "WEBVTT" -> 6
    [] a \in {"Alice", "Hello"} -> 5
    [] a = "null" -> 4
    [] a \in {"Bob", "-->"} -> 3
    [] a = "Hi" -> 2
    [] OTHER -> 1

RECURSIVE Length(_)
Length(str) == IF str = <<>> THEN 0 ELSE Chars(Head(str)) + Length(Tail(str))

\* a value: a string, or a value of another type with what String(value) gives
Str(v) == [type |-> "string", v |-> v]
NonString(type, shown) == [type |-> type, v |-> shown]

\* how a direct call ends
NotCalled == <<>>
Returned(value) == [threw |-> FALSE, value |-> value, message |-> <<>>]
Threw(msg) == [threw |-> TRUE, value |-> NonString("undefined", <<"undefined">>),
               message |-> msg]

Includes(str, a) == \E i \in DOMAIN str : str[i] = a

\* String.prototype.indexOf, counted from 1
IndexOf(str, a) == CHOOSE i \in DOMAIN str : str[i] = a /\ \A j \in 1..(i - 1) : str[j] # a

RECURSIVE Split(_, _)
\* String.prototype.split
Split(str, sep) ==
  IF ~Includes(str, sep) THEN <<str>>
  ELSE <<SubSeq(str, 1, IndexOf(str, sep) - 1)>>
         \o Split(SubSeq(str, IndexOf(str, sep) + 1, Len(str)), sep)

RECURSIVE Join(_, _)
\* Array.prototype.join
Join(strs, sep) ==
  IF strs = <<>> THEN <<>>
  ELSE IF Len(strs) = 1 THEN strs[1]
  ELSE strs[1] \o <<sep>> \o Join(Tail(strs), sep)

Whitespace == {" ", "\r", "\n"}

RECURSIVE TrimStart(_)
TrimStart(str) ==
  IF str # <<>> /\ Head(str) \in Whitespace THEN TrimStart(Tail(str)) ELSE str

RECURSIVE TrimEnd(_)
TrimEnd(str) ==
  IF str # <<>> /\ str[Len(str)] \in Whitespace
    THEN TrimEnd(SubSeq(str, 1, Len(str) - 1))
    ELSE str

\* String.prototype.trim
Trim(str) == TrimEnd(TrimStart(str))

----------------------------------------------------------------------------
(* parseVTTToText, index.js:432-476 *)

Digits == {"1", "2"}

\* index.js:433-436  a value that is not a string is converted with String()
Stringified_asIs(vttContent) == vttContent
Stringified(vttContent) ==
  IF vttContent.type # "string" THEN Str(vttContent.v) ELSE vttContent

\* index.js:446  empty, header, timing and purely numeric lines
Skipped_keepsNumeric(line) ==
  \/ line = <<>>
  \/ Head(line) = "WEBVTT"
  \/ Includes(line, "-->")
Skipped(line) ==
  \/ line = <<>>
  \/ Head(line) = "WEBVTT"
  \/ Includes(line, "-->")
  \/ \A i \in DOMAIN line : line[i] \in Digits

\* index.js:460, 468  `${currentSpeaker}: ${text}`
SpeakerLine_textOnly(currentSpeaker, text) == text
SpeakerLine(currentSpeaker, text) == currentSpeaker \o <<":", " ">> \o text

RECURSIVE ParseLines(_, _, _)
\* index.js:442-473  the loop over the lines
ParseLines(lines, textLines, currentSpeaker) ==
  IF lines = <<>> THEN textLines
  ELSE
    LET line == Trim(Head(lines))
        rest == Tail(lines)
    IN
      IF Skipped(line) THEN ParseLines(rest, textLines, currentSpeaker)
      ELSE IF Includes(line, ":")
        THEN
          LET colonIndex == IndexOf(line, ":")
              potentialSpeaker == Trim(SubSeq(line, 1, colonIndex - 1))
              potentialText == Trim(SubSeq(line, colonIndex + 1, Len(line)))
          IN
            IF Length(potentialText) > 0 /\ Length(potentialSpeaker) < MaxSpeakerChars
              THEN ParseLines(rest,
                              Append(textLines, SpeakerLine(potentialSpeaker, potentialText)),
                              potentialSpeaker)
              ELSE ParseLines(rest, Append(textLines, line), currentSpeaker)
      ELSE ParseLines(rest,
                      Append(textLines,
                             IF currentSpeaker # <<>> THEN SpeakerLine(currentSpeaker, line)
                             ELSE line),
                      currentSpeaker)

\* index.js:432-476  `.split` of a value that is not a string throws
parseVTTToText(vttContent) ==
  LET content == Stringified(vttContent) IN
    IF content.type # "string" THEN Threw(<<"vttContent.split is not a function">>)
    ELSE Returned(Str(Join(ParseLines(Split(content.v, "\n"), <<>>, <<>>), "\n")))

\* the lines of a subtitle block (test/test_zoom_api.js:87-103): header,
\* sequence number, timing, empty lines, labeled speaker lines
HeaderLines == {<<"WEBVTT">>}
NumericLines == {<<"1">>}
TimingLines == {<<"1", ":", "2", " ", "-->", " ", "1", ":", "2">>}
EmptyLines == {<<>>, <<" ">>}

\* a labeled line: the speaker's name, a colon, a gap, what was said
Labeled(label, gap, text) == [label |-> label, gap |-> gap, text |-> text]
LabeledSamples ==
  {Labeled(<<"Alice">>, <<" ">>, <<"Hello">>),
   Labeled(<<"Bob">>, <<>>, <<"Hi">>),
   Labeled(<<"Alice", " ", "Bob">>, <<" ">>, <<"Hello", ":", " ", "Hi", " ">>)}
LineOf(x) == x.label \o <<":">> \o x.gap \o x.text
LabeledLines == {LineOf(x) : x \in LabeledSamples}

BlockLines == HeaderLines \cup NumericLines \cup TimingLines \cup EmptyLines \cup LabeledLines

\* lines that fit none of these kinds: text without a label, a colon alone, a
\* line ending in a colon, a line beginning with a colon, a label of fifty
\* characters, a line with a carriage return
OddLines ==
  {<<"Hello">>, <<":">>, <<"Alice", ":">>, <<":", "Hi">>, <<LongLabel, ":", "Hi">>,
   <<"Bob", ":", " ", "Hi", "\r">>}

VttLines == BlockLines \cup OddLines

\* test/test_zoom_api.js:87-103  sampleVTT, with two speakers
SampleVTT ==
  Join(<<<<"WEBVTT">>, <<>>,
         <<"1">>, <<"1", ":", "2", " ", "-->", " ", "1", ":", "2">>,
         <<"Alice", ":", " ", "Hello">>, <<>>,
         <<"1">>, <<"1", ":", "2", " ", "-->", " ", "1", ":", "2">>,
         <<"Bob", ":", "Hi">>>>, "\n")

VttContents ==
  {Str(Join(lines, "\n")) : lines \in UNION {[1..n -> VttLines] : n \in 0..MaxLines}}
    \cup {Str(SampleVTT)}
    \cup {NonString("undefined", <<"undefined">>), NonString("object", <<"null">>),
           NonString("number", <<"1", "2">>), NonString("object", <<"[object Object]">>)}

\* parseVTTToText(vttContent) called directly
CallParseVTTToText ==
  /\ unit.fn = "parseVTTToText" /\ unit.pc = "calling"
  /\ unit' = [unit EXCEPT !.pc = "done", !.output = parseVTTToText(unit.input)]
  /\ UNCHANGED <<server, env, now, zoomAccessTokenCache, meetingParticipants, last, runs,
                 calls, known, log, grant>>

----------------------------------------------------------------------------
(* generateFeedback, index.js:720-822 *)

\* process.env.OPENAI_API_KEY: unset, the placeholder of the sample .env, a key
ApiKeys == {"undefined", "your_openai_api_key_here", "sk-key"}

\* index.js:725 (and 350)
KeyConfigured_exceptUnset(apiKey) == apiKey # "undefined"
KeyConfigured(apiKey) == apiKey # "undefined" /\ apiKey # "your_openai_api_key_here"

\* an object: its top-level fields and its summary
Object(fields, summary) == [type |-> "object", fields |-> fields, summary |-> summary]
NullValue == [type |-> "null", fields |-> {}, summary |-> <<>>]

\* index.js:765-771  the fields the prompt asks for
FeedbackFields ==
  {"summary", "communicationInsights", "hiddenDynamics", "collaborationScore",
   "actionItems", "individualFeedback"}

\* index.js:727-731
MockFeedback ==
  Object({"summary", "insights", "actionItems"},
         <<"Mock meeting summary", " - ", "OpenAI API key not configured">>)

\* index.js:801-808  (the contents of the model are shorter than 200 characters)
FallbackFeedback_summaryOnly(content) == Object({"summary"}, content.v \o <<"...">>)
FallbackFeedback(content) == Object(FeedbackFields, content.v \o <<"...">>)

\* index.js:813-820
ErrorFeedback == Object(FeedbackFields, <<"Error generating feedback with OpenAI">>)

\* the JSON texts of the model and the values they denote
JSONTexts == {"{feedback}", "{}", "null"}
JSONValue(text) ==
  CASE text = "{feedback}" -> Object(FeedbackFields, <<"summary">>)
    [] text = "{}" -> Object({}, <<>>)
    [] OTHER -> NullValue

\* JSON.parse: the argument is converted to a string; white space around the
\* one value is allowed, anything else is a SyntaxError
JSONParse(content) ==
  LET text == Trim(content.v) IN
    IF Len(text) = 1 /\ text[1] \in JSONTexts
      THEN Returned(JSONValue(text[1]))
      ELSE Threw(<<"SyntaxError">>)

\* what openai.chat.completions.create may give: a rejection, a response
\* without choices, a response with the content of its first choice
Answer(ok, choices, content) == [ok |-> ok, choices |-> choices, content |-> content]
\* a markdown code fence: the atoms stand for three backticks followed by
\* "json", and for three backticks
FenceOpen == "fence json"
FenceClose == "fence"
Fenced(text) == <<FenceOpen, "\n">> \o text \o <<"\n", FenceClose>>
ChatContents ==
  {Str(<<"{feedback}">>), Str(<<"{feedback}", "\n">>), Str(<<"{}">>),
   Str(Fenced(<<"{feedback}">>)), Str(Fenced(<<"Hello">>)),
   Str(<<"Hello">>), Str(<<"Hello", " ", "{feedback}">>), Str(<<>>),
   NonString("null", <<"null">>), NonString("undefined", <<"undefined">>)}
ChatAnswers ==
  {Answer(FALSE, FALSE, Str(<<>>)), Answer(TRUE, FALSE, Str(<<>>))}
    \cup {Answer(TRUE, TRUE, content) : content \in ChatContents}

\* index.js:792-821  generateFeedback after the await: a rejection and a
\* missing choice are caught at 811; so is the TypeError of
\* `content.substring` in the inner catch when content is not a string
ChatFeedback(answer) ==
  IF ~answer.ok \/ ~answer.choices THEN Returned(ErrorFeedback)
  ELSE IF ~JSONParse(answer.content).threw THEN JSONParse(answer.content)
  ELSE IF answer.content.type # "string" THEN Returned(ErrorFeedback)
  ELSE Returned(FallbackFeedback(answer.content))

Transcripts == {Str(<<>>), Str(<<"Alice", ":", " ", "Hello">>)}
ParticipantLists == {<<>>, <<"p1">>, <<"p1", "p2">>}

FeedbackInput(apiKey, transcript, participants, answer) ==
  [apiKey |-> apiKey, transcript |-> transcript, participants |-> participants,
   answer |-> answer]
FeedbackInputs ==
  {FeedbackInput(k, t, ps, a) :
     k \in ApiKeys, t \in Transcripts, ps \in ParticipantLists, a \in ChatAnswers}

\* index.js:720-790  generateFeedback(transcript, participants) up to the await
CallGenerateFeedback ==
  /\ unit.fn = "generateFeedback" /\ unit.pc = "calling"
  /\ unit' = IF ~KeyConfigured(unit.input.apiKey)
               THEN [unit EXCEPT !.pc = "done", !.output = Returned(MockFeedback)]
               ELSE [unit EXCEPT !.pc = "awaiting", !.requests = 1]
  /\ UNCHANGED <<server, env, now, zoomAccessTokenCache, meetingParticipants, last, runs,
                 calls, known, log, grant>>

\* index.js:782-821  the chat completion answers the suspended call
ChatCompletionResponds ==
  /\ unit.fn = "generateFeedback" /\ unit.pc = "awaiting"
  /\ unit' = [unit EXCEPT !.pc = "done", !.output = ChatFeedback(unit.input.answer)]
  /\ UNCHANGED <<server, env, now, zoomAccessTokenCache, meetingParticipants, last, runs,
                 calls, known, log, grant>>

----------------------------------------------------------------------------
(* transcribeWithWhisper, index.js:346-427 *)

\* index.js:355  const maxSize = 25 * 1024 * 1024
maxSize == 25 * 1024 * 1024

\* index.js:356
TooLarge_atLimit(byteLength) == byteLength >= maxSize
TooLarge(byteLength) == byteLength > maxSize

\* index.js:416  the catch wraps every error of the function
WhisperError(msg) == Threw(<<"Whisper transcription failed: ">> \o msg)

\* index.js:351, 359  the messages of the errors the function raises itself
KeyMessage == <<"OpenAI API key not configured">>
SizeMessage ==
  <<"Audio file too large for Whisper API (>", "25MB",
    "). Audio chunking not yet implemented.">>

\* index.js:423-427  formatTimestamp: MM:SS, each padded to two digits
PadStart2(n) == IF n < 10 THEN <<"0", ToString(n)>> ELSE <<ToString(n)>>
formatTimestamp(seconds) == PadStart2(seconds \div 60) \o <<":">> \o PadStart2(seconds % 60)

\* index.js:401-405  `[${timestamp}] ${text}` of each segment, joined by newlines
Segment(start, text) == [start |-> start, text |-> text]
SegmentLine(segment) ==
  <<"[">> \o formatTimestamp(segment.start) \o <<"]", " ">> \o Trim(segment.text)

\* what the transcription endpoint may give: a rejection with or without an
\* error body, verbose JSON with segments, JSON with the text alone, neither
Transcription(ok, segments, text) == [ok |-> ok, segments |-> segments, text |-> text]
NoSegments == <<"undefined">>
WhisperAnswers ==
  {Transcription(FALSE, NoSegments, <<"Invalid file format.">>),
   Transcription(FALSE, NoSegments, <<"Network Error">>),
   Transcription(TRUE, <<Segment(5, <<" ", "Hello">>), Segment(75, <<"Hi">>)>>, <<"Hello">>),
   Transcription(TRUE, NoSegments, <<"Hello">>),
   Transcription(TRUE, NoSegments, <<>>)}

\* index.js:394-417  transcribeWithWhisper after the await
WhisperTranscript(answer) ==
  IF ~answer.ok THEN WhisperError(answer.text)
  ELSE IF answer.segments # NoSegments
    THEN Returned(Str(Join([i \in DOMAIN answer.segments |-> SegmentLine(answer.segments[i])],
                           "\n")))
  ELSE Returned(Str(answer.text))

\* audio buffers by their byteLength: empty, just below, at and above the limit
ByteLengths == {0, maxSize - 1, maxSize, maxSize + 1, 2 * maxSize}

WhisperInput(apiKey, byteLength, participantList, answer) ==
  [apiKey |-> apiKey, byteLength |-> byteLength, participantList |-> participantList,
   answer |-> answer]
WhisperInputs ==
  {WhisperInput(k, n, ps, a) :
     k \in ApiKeys, n \in ByteLengths, ps \in ParticipantLists, a \in WhisperAnswers}

\* index.js:346-392  transcribeWithWhisper(audioBuffer, participantList) up to
\* the await: the key test, the size test, the form with the whole buffer
CallTranscribeWithWhisper ==
  /\ unit.fn = "transcribeWithWhisper" /\ unit.pc = "calling"
  /\ unit' =
       IF ~KeyConfigured(unit.input.apiKey)
         THEN [unit EXCEPT !.pc = "done", !.output = WhisperError(KeyMessage)]
       ELSE IF TooLarge(unit.input.byteLength)
         THEN [unit EXCEPT !.pc = "done", !.output = WhisperError(SizeMessage)]
       ELSE [unit EXCEPT !.pc = "awaiting", !.requests = 1,
                         !.sent = unit.input.byteLength]
  /\ UNCHANGED <<server, env, now, zoomAccessTokenCache, meetingParticipants, last, runs,
                 calls, known, log, grant>>

\* index.js:385-417  the transcription endpoint answers the suspended call
WhisperResponds ==
  /\ unit.fn = "transcribeWithWhisper" /\ unit.pc = "awaiting"
  /\ unit' = [unit EXCEPT !.pc = "done", !.output = WhisperTranscript(unit.input.answer)]
  /\ UNCHANGED <<server, env, now, zoomAccessTokenCache, meetingParticipants, last, runs,
                 calls, known, log, grant>>

----------------------------------------------------------------------------
(* Specifications *)

\* the server: the events of a meeting and the whole pipeline
Next ==
  /\ server = "listening"
  /\ \/ \E req \in ServerRequests : Webhook(req)
     \/ \E r \in RunIds, resp \in ServerTokenResponses : PipelineTokenResponse(r, resp)
     \/ \E r \in RunIds, answer \in DownloadResponses : PipelineDownloadResponse(r, answer)
     \/ \E r \in RunIds, answer \in ChatResponses : PipelineChatResponse(r, answer)

Spec == Init /\ [][Next]_vars

\* one meeting: joins, leaves and transcript events, with every outcome of the
\* upstream calls
MeetingNext ==
  /\ server = "listening"
  /\ \/ \E req \in MeetingRequests : Webhook(req)
     \/ \E r \in RunIds, resp \in ServerTokenResponses : PipelineTokenResponse(r, resp)
     \/ \E r \in RunIds, answer \in DownloadResponses : PipelineDownloadResponse(r, answer)
     \/ \E r \in RunIds, answer \in ChatResponses : PipelineChatResponse(r, answer)

MeetingSpec == MeetingInit /\ [][MeetingNext]_vars

\* the endpoint under every signature shape, from the holder of the secret and
\* from outside senders, up to the first upstream call of each handler (the
\* token endpoint has not answered yet)
VerifyNext == server = "listening" /\ \E req \in VerifyRequests : Webhook(req)

VerifySpec == VerifyInit /\ [][VerifyNext]_vars

\* getZoomAccessToken called directly, with and without forceRefresh
TokenNext ==
  /\ server = "listening"
  /\ \/ \E c \in CallIds, forceRefresh \in BOOLEAN : CallGetZoomAccessToken(c, forceRefresh)
     \/ \E c \in CallIds, resp \in TokenResponses : TokenEndpointResponds(c, resp)
     \/ Tick

TokenSpec == TokenInit /\ [][TokenNext]_vars

\* parseVTTToText on subtitle texts of up to MaxLines lines and on other values
VttInit ==
  /\ Configured({e \in Environments : e.secret = "k" /\ e.zoomCreds /\ e.openaiKey})
  /\ unit \in {Unit("parseVTTToText", "calling", vttContent, NotCalled) :
                 vttContent \in VttContents}

VttNext == CallParseVTTToText

VttSpec == VttInit /\ [][VttNext]_vars

\* generateFeedback under every key setting and every chat-completion answer
FeedbackInit ==
  /\ Configured({e \in Environments : e.secret = "k" /\ e.zoomCreds /\ e.openaiKey})
  /\ unit \in {Unit("generateFeedback", "calling", input, NotCalled) :
                 input \in FeedbackInputs}

FeedbackNext == CallGenerateFeedback \/ ChatCompletionResponds

FeedbackSpec == FeedbackInit /\ [][FeedbackNext]_vars

\* transcribeWithWhisper under every key setting, around the size limit
WhisperInit ==
  /\ Configured({e \in Environments : e.secret = "k" /\ e.zoomCreds /\ e.openaiKey})
  /\ unit \in {Unit("transcribeWithWhisper", "calling", input, NotCalled) :
                 input \in WhisperInputs}

WhisperNext == CallTranscribeWithWhisper \/ WhisperResponds

WhisperSpec == WhisperInit /\ [][WhisperNext]_vars

----------------------------------------------------------------------------
(* Webhook verification and the URL-validation handshake (VerifySpec) *)

\* C1: a request for an event other than URL validation, with a raw body and a
\* timestamp header, reaches the event switch if and only if its signature
\* header is "v0=" followed by the digest, keyed with the shared secret, of
\* "v0:{timestamp}:{rawBody}"; a signature made for a (secret, timestamp, body)
\* that differs from the request in exactly one of the three is answered 401.
C1_VerifiedIffSigned ==
  LET req == last.req IN
    (req.raw.present /\ BodyOf(req).event # EvValidation /\ TruthyTs(req.timestamp)) =>
      /\ (last.handler # "none") <=>
           (req.signature
              = SigValue("v0=", HMAC(env.secret,
                                     <<"v0", ":">> \o req.timestamp.v \o <<":">> \o req.raw.v)))
      /\ \A k \in Keys, t \in Timestamps, r \in {PipelineRaw, JoinRaw} :
           ( /\ req.signature = sendWebhookEvent_signature(k, t, r)
             /\ Cardinality({x \in {"secret", "timestamp", "rawBody"} :
                               \/ x = "secret" /\ k # env.secret
                               \/ x = "timestamp" /\ t # req.timestamp.v
                               \/ x = "rawBody" /\ r # req.raw.v}) = 1 )
           => (last.handler = "none" /\ last.status = 401)

\* a correctly signed transcript event of the holder has reached its handler
C1_Witness ==
  /\ env.secret = "k"
  /\ last.req = Request("holder", RawValue(PipelineRaw),
                        sendWebhookEvent_signature("k", <<"2">>, PipelineRaw),
                        TsValue(<<"2">>))
  /\ last.handler = "transcript"

\* C2: every request for an event other than URL validation whose signature or
\* timestamp header is missing, or whose signature is not the one expected for
\* it, is answered 401, and the registry, the token cache and the pipeline
\* runs (hence every outbound call) stay as they were.
C2_RejectedWithoutEffect ==
  [][LET req == last'.req IN
       ( /\ last' # last
         /\ BodyOf(req).event # EvValidation
         /\ \/ ~TruthySig(req.signature)
            \/ ~TruthyTs(req.timestamp)
            \/ ~req.raw.present
            \/ req.signature
                 # sendWebhookEvent_signature(env.secret, req.timestamp.v, req.raw.v) )
       => /\ last'.status = 401
          /\ last'.handler = "none"
          /\ UNCHANGED <<meetingParticipants, zoomAccessTokenCache, runs>>]_vars

\* C3: with a webhook secret configured, no event handler runs for a request of
\* a sender who does not hold that secret, whatever the sender has sent to the
\* endpoint and read from its responses before.
C3_HandlersOnlyForHolder ==
  (env.secret = "k" /\ last.handler \in {"participant", "recording", "transcript"})
    => last.req.by # "outsider"

\* C4: a URL-validation event with a non-empty plainToken is answered 200 with
\* that plainToken and the digest of it keyed with the shared secret; one
\* without is answered 400; neither needs signature headers, neither reaches an
\* event handler, and the registry and the token cache stay as they were.
C4_ValidationAnswered ==
  [][LET req == last'.req
         body == BodyOf(req)
     IN
       (last' # last /\ body.event = EvValidation) =>
         /\ IF body.payload = "ok" /\ body.plainToken.present /\ body.plainToken.v # <<>>
              THEN /\ last'.status = 200
                   /\ last'.body = [plainToken |-> body.plainToken.v,
                                    encryptedToken |-> HMAC(env.secret, body.plainToken.v)]
              ELSE last'.status = 400 /\ last'.body = NoResponseBody
         /\ last'.handler = "none"
         /\ UNCHANGED <<meetingParticipants, zoomAccessTokenCache, runs>>]_vars

\* an unsigned challenge was answered with the keyed digest of its plainToken
\* while the registry held a participant
C4_Witness ==
  /\ env.secret = "k"
  /\ last.req = UnsignedRequest("holder", PlainChallenge)
  /\ last.status = 200
  /\ last.body = [plainToken |-> <<"plain">>, encryptedToken |-> HMAC("k", <<"plain">>)]
  /\ meetingParticipants # <<>>

----------------------------------------------------------------------------
(* The token cache (TokenSpec) *)

\* C5: a call without forceRefresh, made while the cache holds a token and the
\* clock is before the cached expiry, returns the cached token at once, sends
\* no request to the token endpoint and leaves the cache as it was.
C5_CachedTokenReturned ==
  [][\A c \in CallIds :
       ( /\ calls[c].pc # "awaiting" /\ calls'[c] # calls[c]
         /\ ~calls'[c].forceRefresh
         /\ Truthy(zoomAccessTokenCache.token)
         /\ now < zoomAccessTokenCache.expiresAt )
       => /\ calls'[c].pc = "returned"
          /\ calls'[c].result = zoomAccessTokenCache.token
          /\ calls'[c].requests = 0
          /\ zoomAccessTokenCache' = zoomAccessTokenCache]_vars

\* an unforced call has returned the token that is cached, without a request
C5_Witness ==
  \E c \in CallIds :
    /\ calls[c].pc = "returned" /\ ~calls[c].forceRefresh /\ calls[c].requests = 0
    /\ calls[c].result \in Tokens
    /\ calls[c].result = zoomAccessTokenCache.token

\* C6 as stated: every call made at or after the cached expiry, with an empty
\* cache or with forceRefresh sends exactly one request to the token endpoint;
\* when the request succeeds the cache holds the token of the response and the
\* call returns it.
C6_RefreshRequestsOnce ==
  [][\A c \in CallIds :
       /\ ( /\ calls[c].pc # "awaiting" /\ calls'[c] # calls[c]
            /\ \/ calls'[c].forceRefresh
               \/ ~Truthy(zoomAccessTokenCache.token)
               \/ now >= zoomAccessTokenCache.expiresAt )
          => (calls'[c].pc = "awaiting" /\ calls'[c].requests = 1)
       /\ (calls[c].pc = "awaiting" /\ calls'[c].pc = "returned")
          => /\ calls'[c].requests = 1
             /\ grant'.at = now
             /\ zoomAccessTokenCache'.token = grant'.access_token
             /\ calls'[c].result = grant'.access_token]_vars

\* C6 with the OAuth client credentials configured: every call made at or
\* after the cached expiry, with an empty cache or with forceRefresh sends
\* exactly one request to the token endpoint; when the request succeeds the
\* cache holds the token of the response and the call returns it.
C6_RefreshRequestsOnceConfigured ==
  [][\A c \in CallIds :
       /\ ( /\ env.zoomCreds
            /\ calls[c].pc # "awaiting" /\ calls'[c] # calls[c]
            /\ \/ calls'[c].forceRefresh
               \/ ~Truthy(zoomAccessTokenCache.token)
               \/ now >= zoomAccessTokenCache.expiresAt )
          => (calls'[c].pc = "awaiting" /\ calls'[c].requests = 1)
       /\ (calls[c].pc = "awaiting" /\ calls'[c].pc = "returned")
          => /\ calls'[c].requests = 1
             /\ grant'.at = now
             /\ zoomAccessTokenCache'.token = grant'.access_token
             /\ calls'[c].result = grant'.access_token]_vars

\* a forced call has sent its one request and returned the token just issued,
\* which the cache now holds
C6_Witness ==
  \E c \in CallIds :
    /\ calls[c].pc = "returned" /\ calls[c].forceRefresh /\ calls[c].requests = 1
    /\ calls[c].result \in Tokens
    /\ zoomAccessTokenCache.token = calls[c].result
    /\ grant.access_token = calls[c].result /\ grant.at = now

\* C7: a failed token request raises an error and leaves nothing of itself in
\* the cache: the cache holds either no token or a token value that was
\* issued, and no call returns without a token.
C7_NoInvalidTokenCached ==
  /\ zoomAccessTokenCache.token \in Tokens \cup {Null}
  /\ \A c \in CallIds : calls[c].pc = "returned" => calls[c].result \in Tokens

\* C8: a successful token request at time t with lifetime expires_in caches the
\* expiry t + (expires_in - 300) seconds; a call returns the cached token only
\* before that expiry, hence more than 300 seconds before the token's real
\* expiry.
C8_SafetyBuffer ==
  [][\A c \in CallIds :
       /\ (calls[c].pc = "awaiting" /\ calls'[c].pc = "returned")
          => zoomAccessTokenCache'.expiresAt
               = now + ((grant'.expires_in - SafetyBufferSeconds) * MsPerSecond)
       /\ ( /\ calls[c].pc # "awaiting" /\ calls'[c] # calls[c]
            /\ calls'[c].pc = "returned" )
          => /\ now < zoomAccessTokenCache.expiresAt
             /\ now + (SafetyBufferSeconds * MsPerSecond)
                  < grant.at + (grant.expires_in * MsPerSecond)]_vars

\* the cached token of a 301 second grant is handed out in the one second of
\* its window, and the clock has since reached the cached expiry
C8_Witness ==
  /\ grant.expires_in = 301
  /\ zoomAccessTokenCache.expiresAt = grant.at + MsPerSecond
  /\ now = zoomAccessTokenCache.expiresAt
  /\ \E c \in CallIds :
       /\ calls[c].pc = "returned" /\ calls[c].requests = 0
       /\ calls[c].result = zoomAccessTokenCache.token
       /\ calls[c].result \in Tokens

----------------------------------------------------------------------------
(* Logging and the order of the pipeline (Spec) *)

\* C9: no log entry shows a whole access token: every entry shows fewer
\* characters of a token than the token has.
C9_NoFullTokenLogged ==
  \A e \in log : \A tok \in Tokens : tok.id = e.id => e.chars < tok.len

\* C10: the stages of every pipeline run are a prefix of token acquisition,
\* recording lookup, download, normalisation, feedback generation, dispatch;
\* feedback is generated only after lookup and normalisation.
C10_StagesInOrder ==
  LET order == <<"token", "lookup", "download", "normalise", "feedback", "dispatch">> IN
    \A r \in RunIds :
      /\ Len(runs[r].stages) <= Len(order)
      /\ runs[r].stages = SubSeq(order, 1, Len(runs[r].stages))

----------------------------------------------------------------------------
(* The participant registry and the pipeline (MeetingSpec) *)

\* C11: when the registry held participants of the meeting as the transcript
\* event arrived, the run has read the registry exactly once by the time it
\* calls generateFeedback, and the list it passes is not empty and contains
\* the registered participants.
C11_RegistryGivesRoster ==
  [][\A r \in RunIds :
       ( /\ runs[r].registered # {}
         /\ ~Reached(runs[r], "feedback") /\ Reached(runs'[r], "feedback") )
       => /\ runs'[r].registryReads = 1
          /\ runs'[r].roster # <<>>
          /\ runs[r].registered \subseteq IdsOf(runs'[r].roster)]_vars

\* C12: a run for a meeting without registered participants goes on from the
\* token to the download and from the download to generateFeedback unless the
\* upstream call itself fails, passes an empty roster when the payload lists
\* no participants, dispatches, and is answered 200.
C12_UnknownParticipantsTolerated ==
  [][\A r \in RunIds :
       /\ (runs[r].registered = {} /\ runs[r].pc = "token" /\ runs'[r].pc # "token")
          => (runs'[r].failed \/ runs'[r].pc = "download")
       /\ (runs[r].registered = {} /\ runs[r].pc = "download" /\ runs'[r].pc # "download")
          => \/ runs'[r].failed /\ ~Reached(runs'[r], "feedback")
             \/ /\ Reached(runs'[r], "feedback")
                /\ runs[r].parts = "undefined" => runs'[r].roster = <<>>
                /\ runs[r].parts # "undefined" => runs'[r].roster = <<runs[r].parts>>
       /\ (runs[r].roster = <<>> /\ runs[r].pc = "chat" /\ runs'[r].pc # "chat")
          => (Reached(runs'[r], "dispatch") /\ ~runs'[r].failed)
       /\ (runs[r].pc # "done" /\ runs'[r].pc = "done") => runs'[r].status = 200]_vars

\* no participant event was ever handled, and a run has gone through all its
\* stages with an empty roster and was answered 200
C12_Witness ==
  /\ meetingParticipants = <<>>
  /\ \E r \in RunIds :
       /\ runs[r].pc = "done" /\ ~runs[r].failed /\ runs[r].status = 200
       /\ runs[r].stages = <<"token", "download", "feedback", "dispatch">>
       /\ runs[r].roster = <<>>
       /\ runs[r].feedback = "parsed"

\* C13: when a run dispatches its feedback, the registry afterwards holds no
\* entry for the meeting of the run.
C13_RegistryCleanedUp ==
  [][\A r \in RunIds :
       (~Reached(runs[r], "dispatch") /\ Reached(runs'[r], "dispatch"))
       => runs[r].uuid \notin DOMAIN meetingParticipants']_vars

\* C14: no registry entry holds a participant id twice; right after a handled
\* leave event the entry of the meeting does not hold the id that left, and
\* right after a handled join event it does.
C14_RegistryReflectsSession ==
  /\ \A m \in DOMAIN meetingParticipants :
       \A i, j \in 1..Len(meetingParticipants[m]) :
         meetingParticipants[m][i] = meetingParticipants[m][j] => i = j
  /\ LET body == BodyOf(last.req)
         ids == IdsOf(ParticipantsOf(meetingParticipants, body.uuid))
     IN
       (last.handler = "participant" /\ last.status = 200 /\ body.payload = "ok")
       => /\ body.event = EvLeft => body.pid \notin ids
          /\ body.event = EvJoined => body.pid \in ids

\* C15: a verified leave event for a participant (or a meeting) that is not in
\* the registry, and a verified join event for a participant id that is
\* already in it, are answered 200.
C15_EdgeEventsAnswered ==
  [][LET req == last'.req
         body == BodyOf(req)
         ids == IdsOf(ParticipantsOf(meetingParticipants, body.uuid))
     IN
       ( /\ last' # last \/ meetingParticipants' # meetingParticipants
         /\ req.signature
              = sendWebhookEvent_signature(env.secret, req.timestamp.v, req.raw.v)
         /\ body.payload = "ok"
         /\ \/ body.event = EvLeft /\ body.pid \notin ids
            \/ body.event = EvJoined /\ body.pid \in ids )
       => (last'.status = 200 /\ last'.handler = "participant")]_vars

\* a second join of the same participant id was answered 200
C15_Witness ==
  /\ last.req = SignedRequest("holder", "k", JoinBody)
  /\ last.status = 200
  /\ Len(ParticipantsOf(meetingParticipants, "m1")) = 2

\* C16: a run that ended on a failed upstream call (token request, download)
\* or whose chat completion failed has been answered 200, never 500.
C16_UpstreamFailureAcknowledged ==
  \A r \in RunIds :
    (runs[r].pc = "done" /\ (runs[r].failed \/ runs[r].feedback = "error"))
    => runs[r].status = 200

\* one run ended on a failed download and one on a failed chat completion,
\* both answered 200
C16_Witness ==
  \E r, q \in RunIds :
    /\ runs[r].pc = "done" /\ runs[r].failed /\ runs[r].status = 200
    /\ runs[r].stages = <<"token", "download">>
    /\ runs[q].pc = "done" /\ runs[q].feedback = "error" /\ runs[q].status = 200

\* C17: with the webhook secret configured, every request received has been
\* answered with 200, 400, 401 or 500, unless its handler is still waiting for
\* an upstream call; a run that has ended has been answered with one of these.
C17_EveryRequestAnswered ==
  /\ (env.secret = "k" /\ last.req # NoRequest)
       => \/ last.status \in {200, 400, 401, 500}
          \/ /\ last.status = 0
             /\ last.handler = "transcript"
             /\ \E r \in RunIds : runs[r].pc \in {"token", "download", "chat"}
  /\ \A r \in RunIds : runs[r].pc = "done" => runs[r].status \in {200, 400, 401, 500}

\* C18: with the webhook secret configured, whatever request or pipeline run
\* has failed, the process is still running and listening.
C18_ProcessSurvives == env.secret = "k" => server = "listening"

\* C19: a run that is waiting for an upstream call has not been answered; a
\* run that has been answered has ended, with its feedback dispatched or its
\* failure logged.
C19_AcknowledgedAfterPipeline ==
  \A r \in RunIds :
    /\ runs[r].pc \in {"token", "download", "chat"} => runs[r].status = 0
    /\ runs[r].status # 0
         => /\ runs[r].pc = "done"
            /\ Reached(runs[r], "dispatch") \/ runs[r].failed

\* one run has been answered after its dispatch while another, unanswered, is
\* waiting for the chat completion
C19_Witness ==
  \E r, q \in RunIds :
    /\ runs[r].pc = "done" /\ runs[r].status = 200 /\ Reached(runs[r], "dispatch")
    /\ runs[q].pc = "chat" /\ runs[q].status = 0

\* C20: every verified transcript-completed event that carries a transcript
\* file starts a run of its own in a free activation, with its one token
\* request, whatever runs for the same meeting are in flight, and leaves those
\* runs as they are.
C20_EveryEventStartsRun ==
  [][LET req == last'.req
         body == BodyOf(req)
     IN
       ( /\ \/ last' # last
            \/ \E r \in RunIds : runs[r].pc \in {"idle", "done"} /\ runs'[r] # runs[r]
         /\ req.signature
              = sendWebhookEvent_signature(env.secret, req.timestamp.v, req.raw.v)
         /\ body.event = EvTranscript /\ body.payload = "ok" /\ body.files = "TRANSCRIPT" )
       => \E r \in RunIds :
            /\ runs[r].pc \in {"idle", "done"}
            /\ runs'[r].pc = "token"
            /\ runs'[r].uuid = body.uuid
            /\ runs'[r].stages = <<"token">>
            /\ runs'[r].tokenRequests = 1
            /\ \A q \in RunIds \ {r} : runs'[q] = runs[q]]_vars

\* two runs for the same meeting are in flight at once
C20_Witness ==
  /\ runs[1].pc = "download" /\ runs[1].uuid = "m1"
  /\ runs[2].pc = "token" /\ runs[2].uuid = "m1"

----------------------------------------------------------------------------
(* Upstream failures, unhandled events, the test flow *)

\* the upstream calls a run has made
CallsOf(run) == run.tokenRequests + run.downloads + run.chats

\* C21: a run makes each upstream call (token request, download, chat
\* completion) at most once; a step on which a run fails makes no call, and a
\* run that failed at the token request has made no download and no chat call,
\* one that failed at the download no chat call.
C21_NoRetry ==
  [][\A r \in RunIds :
       /\ runs'[r].tokenRequests <= 1 /\ runs'[r].downloads <= 1 /\ runs'[r].chats <= 1
       /\ (runs[r].pc \in {"token", "download", "chat"} /\ runs'[r] # runs[r])
            => /\ CallsOf(runs'[r]) <= CallsOf(runs[r]) + 1
               /\ runs'[r].failed
                    => /\ runs'[r].pc = "done"
                       /\ CallsOf(runs'[r]) = CallsOf(runs[r])
                       /\ runs[r].pc = "token"
                            => runs'[r].downloads = 0 /\ runs'[r].chats = 0
                       /\ runs[r].pc = "download" => runs'[r].chats = 0]_vars

\* one run has ended on its failed token request and one on its failed
\* download, each after a single attempt
C21_Witness ==
  \E r, q \in RunIds :
    /\ runs[r].pc = "done" /\ runs[r].failed /\ runs[r].stages = <<"token">>
    /\ runs[r].tokenRequests = 1 /\ runs[r].downloads = 0
    /\ runs[q].pc = "done" /\ runs[q].failed /\ runs[q].stages = <<"token", "download">>
    /\ runs[q].tokenRequests = 1 /\ runs[q].downloads = 1 /\ runs[q].chats = 0

\* C22: a verified event of a type the switch does not know is answered 200
\* and changes neither the participant registry nor the token cache, starts no
\* run and no call, and logs nothing of a token.
C22_UnhandledEventIgnored ==
  [][LET req == last'.req
         body == BodyOf(req)
     IN
       ( /\ last' # last
         /\ req.raw.present
         /\ req.signature = expectedSignature(env.secret, req.timestamp.v, req.raw.v)
         /\ TruthyTs(req.timestamp)
         /\ body.event \notin {EvValidation, EvJoined, EvLeft, EvRecording, EvTranscript} )
       => /\ last'.status = 200
          /\ last'.handler = "unhandled"
          /\ UNCHANGED <<meetingParticipants, zoomAccessTokenCache, runs, calls, log,
                          grant, server>>]_vars

\* a meeting.started event has been answered 200 while the registry holds a
\* participant
C22_Witness ==
  /\ BodyOf(last.req).event = EvOther
  /\ last.req.signature
       = expectedSignature(env.secret, last.req.timestamp.v, last.req.raw.v)
  /\ env.secret = "k"
  /\ last.status = 200
  /\ "m1" \in DOMAIN meetingParticipants /\ meetingParticipants["m1"] # <<>>

\* C23: with the OAuth credentials configured and a participant of the
\* meeting registered, a verified transcript-completed event whose
\* recording_files hold a transcript entry, spelled 'transcript' as in the test
\* payload or 'TRANSCRIPT', starts a pipeline run (which goes on to
\* generateFeedback when its upstream calls succeed).
C23_TestFlowTriggersAnalysis ==
  [][LET req == last'.req
         body == BodyOf(req)
     IN
       ( /\ \/ last' # last
            \/ \E r \in RunIds : runs[r].pc \in {"idle", "done"} /\ runs'[r] # runs[r]
         /\ env.zoomCreds
         /\ req.raw.present
         /\ req.signature = expectedSignature(env.secret, req.timestamp.v, req.raw.v)
         /\ body.event = EvTranscript /\ body.payload = "ok"
         /\ body.files \in {"TRANSCRIPT", "transcript"}
         /\ ParticipantsOf(meetingParticipants, body.uuid) # <<>> )
       => \E r \in RunIds :
            /\ runs[r].pc \in {"idle", "done"}
            /\ runs'[r].pc = "token"
            /\ runs'[r].tokenRequests = 1]_vars

\* C29: without OAuth credentials, a run that got as far as asking for a token
\* has made no token request and no download request, has been answered 200,
\* and has produced a (mock) feedback result.
C29_MissingCredentialsGiveMock ==
  ~env.zoomCreds
    => \A r \in RunIds :
         (runs[r].pc = "done" /\ Reached(runs[r], "token"))
           => /\ runs[r].tokenRequests = 0 /\ runs[r].downloads = 0
              /\ runs[r].status = 200
              /\ runs[r].feedback # "none"

----------------------------------------------------------------------------
(* The transcript normalizer (VttSpec) *)

\* what a labeled line is to become: `Speaker: text`
Expected(line) ==
  LET x == CHOOSE y \in LabeledSamples : LineOf(y) = line IN
    x.label \o <<":", " ">> \o Trim(x.text)

IsLabeledLine(line) == line \in LabeledLines

\* C24: for a text whose lines are header, numeric, timing, empty and labeled
\* speaker lines, parseVTTToText returns the labeled lines, each as
\* `Speaker: text`, in their order, joined by newlines, and nothing else.
C24_OnlySpeakerLines ==
  (unit.fn = "parseVTTToText" /\ unit.pc = "done" /\ unit.input.type = "string")
    => LET lines == Split(unit.input.v, "\n")
           labeled == SelectSeq(lines, IsLabeledLine)
       IN
         (\A i \in DOMAIN lines : lines[i] \in BlockLines)
           => unit.output
                = Returned(Str(Join([i \in DOMAIN labeled |-> Expected(labeled[i])], "\n")))

\* the sample block of the test, with its two speaker lines
C24_Witness ==
  /\ unit.fn = "parseVTTToText" /\ unit.pc = "done"
  /\ unit.input = Str(SampleVTT)
  /\ unit.output
       = Returned(Str(<<"Alice", ":", " ", "Hello", "\n", "Bob", ":", " ", "Hi">>))

\* C25: parseVTTToText returns a string, and does not throw, for every text
\* and for values that are not strings.
C25_NormalizerTotal ==
  (unit.fn = "parseVTTToText" /\ unit.pc = "done")
    => ~unit.output.threw /\ unit.output.value.type = "string"

\* an undefined argument has been converted and returned as a line of text
C25_Witness ==
  /\ unit.fn = "parseVTTToText" /\ unit.pc = "done"
  /\ unit.input.type = "undefined"
  /\ unit.output = Returned(Str(<<"undefined">>))

----------------------------------------------------------------------------
(* The feedback generator (FeedbackSpec) *)

\* C26: when the chat-completion call fails, or the content of its answer is
\* not JSON, generateFeedback returns (it does not throw) an object with all of
\* summary, communicationInsights, hiddenDynamics, collaborationScore,
\* actionItems and individualFeedback.
C26_FallbackHasAllFields ==
  LET answer == unit.input.answer IN
    ( /\ unit.fn = "generateFeedback" /\ unit.pc = "done"
      /\ unit.requests = 1
      /\ \/ ~answer.ok
         \/ answer.choices /\ JSONParse(answer.content).threw )
    => /\ ~unit.output.threw
       /\ unit.output.value.type = "object"
       /\ FeedbackFields \subseteq unit.output.value.fields

\* a plain-text answer has produced the fallback object
C26_Witness ==
  /\ unit.fn = "generateFeedback" /\ unit.pc = "done"
  /\ unit.input.answer = Answer(TRUE, TRUE, Str(<<"Hello">>))
  /\ unit.output = Returned(Object(FeedbackFields, <<"Hello", "...">>))

\* the JSON text inside a markdown code fence
FencedBlock(text) == SubSeq(text, 3, Len(text) - 2)
HasFencedJson(content) ==
  /\ content.type = "string"
  /\ Len(content.v) >= 4
  /\ content.v = Fenced(FencedBlock(content.v))
  /\ ~JSONParse(Str(FencedBlock(content.v))).threw

\* C27: when the content is not JSON itself but holds a JSON block inside a
\* markdown code fence, generateFeedback returns the object parsed from the
\* block; it returns the fallback object only when the content is neither.
C27_CodeFenceExtraction ==
  LET answer == unit.input.answer IN
    ( /\ unit.fn = "generateFeedback" /\ unit.pc = "done"
      /\ unit.requests = 1
      /\ answer.ok /\ answer.choices
      /\ JSONParse(answer.content).threw )
    => IF HasFencedJson(answer.content)
         THEN unit.output = JSONParse(Str(FencedBlock(answer.content.v)))
         ELSE answer.content.type = "string"
                => unit.output = Returned(FallbackFeedback(answer.content))

\* C28: without an API key, or with the placeholder key, generateFeedback
\* ends without a chat-completion call and returns the object whose summary
\* begins "Mock meeting summary", whatever the transcript and the participants.
C28_MockWithoutKey ==
  ( /\ unit.fn = "generateFeedback" /\ unit.pc # "calling"
    /\ unit.input.apiKey \in {"undefined", "your_openai_api_key_here"} )
  => /\ unit.pc = "done"
     /\ unit.requests = 0
     /\ unit.output = Returned(MockFeedback)
     /\ Head(unit.output.value.summary) = "Mock meeting summary"

\* the placeholder key, a transcript and two participants: the mock, no call
C28_Witness ==
  /\ unit.fn = "generateFeedback" /\ unit.pc = "done"
  /\ unit.input.apiKey = "your_openai_api_key_here"
  /\ unit.input.transcript = Str(<<"Alice", ":", " ", "Hello">>)
  /\ unit.input.participants = <<"p1", "p2">>
  /\ unit.requests = 0
  /\ unit.output = Returned(MockFeedback)

----------------------------------------------------------------------------
(* The speech-to-text size limit (WhisperSpec) *)

\* the call has ended with an error whose message names the 25 MB limit,
\* without a request
RejectedForSize ==
  /\ unit.pc = "done"
  /\ unit.output.threw
  /\ Includes(unit.output.message, "25MB")
  /\ unit.requests = 0 /\ unit.sent = 0

\* the call has submitted the whole buffer in its one request
SubmittedWhole == unit.requests = 1 /\ unit.sent = unit.input.byteLength

\* whatever the call has submitted is the whole buffer
NeverTruncated == unit.requests = 0 \/ SubmittedWhole

\* C30 as stated: audio of more than 25 MB is rejected with an error that
\* names the limit and no request is sent; audio of at most 25 MB is never
\* submitted in part.
C30_SizeLimit ==
  (unit.fn = "transcribeWithWhisper" /\ unit.pc # "calling")
    => IF unit.input.byteLength > 25 * 1024 * 1024 THEN RejectedForSize ELSE NeverTruncated

\* C30, with the API key configured: audio of more than 25 MB is rejected with
\* an error that names the limit and no request is sent; audio of at most 25 MB
\* is submitted whole.
C30_SizeLimitWithKey ==
  ( /\ unit.fn = "transcribeWithWhisper" /\ unit.pc # "calling"
    /\ unit.input.apiKey \notin {"undefined", "your_openai_api_key_here"} )
    => IF unit.input.byteLength > 25 * 1024 * 1024 THEN RejectedForSize ELSE SubmittedWhole

\* one byte over the limit, with a key: rejected for its size
C30_Witness ==
  /\ unit.fn = "transcribeWithWhisper"
  /\ unit.input.apiKey = "sk-key"
  /\ unit.input.byteLength = (25 * 1024 * 1024) + 1
  /\ RejectedForSize

----------------------------------------------------------------------------
(* The speaker carried forward by the normalizer (VttSpec) *)

\* the kept lines of a text: its trimmed lines that are not skipped
KeptLines(content) ==
  LET lines == Split(content, "\n")
      NotSkipped(line) == ~Skipped(line)
  IN SelectSeq([i \in DOMAIN lines |-> Trim(lines[i])], NotSkipped)

\* the parts of a line left and right of its first colon
LeftPart(line) == Trim(SubSeq(line, 1, IndexOf(line, ":") - 1))
RightPart(line) == Trim(SubSeq(line, IndexOf(line, ":") + 1, Len(line)))

\* a line that sets the speaker
SetsSpeaker(line) ==
  /\ Includes(line, ":")
  /\ Length(LeftPart(line)) < MaxSpeakerChars
  /\ Length(RightPart(line)) > 0

\* the kept lines before the i-th that set the speaker
LabelsBefore(kept, i) == {j \in 1..(i - 1) : SetsSpeaker(kept[j])}
LastOf(js) == CHOOSE j \in js : \A k \in js : k <= j

\* the speaker in force at the i-th kept line: the left part of the last
\* line before it that set the speaker
SpeakerAt(kept, i) == LeftPart(kept[LastOf(LabelsBefore(kept, i))])

\* what is emitted for the i-th kept line when every speaker set before it,
\* the empty one included, is carried forward
CarriedForward(kept, i) ==
  LET line == kept[i] IN
    IF SetsSpeaker(line) THEN LeftPart(line) \o <<":", " ">> \o RightPart(line)
    ELSE IF ~Includes(line, ":") /\ LabelsBefore(kept, i) # {}
      THEN SpeakerAt(kept, i) \o <<":", " ">> \o line
    ELSE line

\* what is emitted for the i-th kept line when only a speaker that is not
\* the empty string is carried forward
NamedCarriedForward(kept, i) ==
  LET line == kept[i] IN
    IF SetsSpeaker(line) THEN LeftPart(line) \o <<":", " ">> \o RightPart(line)
    ELSE IF ~Includes(line, ":") /\ LabelsBefore(kept, i) # {}
              /\ SpeakerAt(kept, i) # <<>>
      THEN SpeakerAt(kept, i) \o <<":", " ">> \o line
    ELSE line

\* C31 (as stated): a kept line with a colon, a left part shorter than 50
\* characters and a non-empty right part sets the current speaker and is
\* emitted as `Speaker: text`; every later kept line without a colon is
\* emitted prefixed with the current speaker until another such line replaces
\* it; every other kept line is emitted unchanged.
C31_SpeakerCarriedForward ==
  (unit.fn = "parseVTTToText" /\ unit.pc = "done" /\ unit.input.type = "string")
    => LET kept == KeptLines(unit.input.v) IN
         unit.output
           = Returned(Str(Join([i \in DOMAIN kept |-> CarriedForward(kept, i)], "\n")))

\* C31 (amended): the same, except that a speaker set to the empty string (a
\* line beginning with its colon) is not carried forward: the kept lines
\* without a colon that follow it are emitted unchanged.
C31_NamedSpeakerCarriedForward ==
  (unit.fn = "parseVTTToText" /\ unit.pc = "done" /\ unit.input.type = "string")
    => LET kept == KeptLines(unit.input.v) IN
         unit.output
           = Returned(Str(Join([i \in DOMAIN kept |-> NamedCarriedForward(kept, i)], "\n")))

\* a labeled line, a line without a colon that takes its speaker, and a line
\* ending in a colon that is emitted as it is
C31_Witness ==
  /\ unit.fn = "parseVTTToText" /\ unit.pc = "done"
  /\ unit.input = Str(Join(<<<<"Alice", ":", " ", "Hello">>, <<"Hello">>, <<"Alice", ":">>>>, "\n"))
  /\ unit.output
       = Returned(Str(<<"Alice", ":", " ", "Hello", "\n",
                        "Alice", ":", " ", "Hello", "\n", "Alice", ":">>))

----------------------------------------------------------------------------
(* The transcript download: strategies and the shape of its body (MeetingSpec) *)

\* the ways of presenting the passcode and the access token named by the
\* debugging notes, in their order
Strategies ==
  <<"passcode and token in the query", "passcode in the query, bearer header",
    "bearer header only">>

\* C32: a download that fails is tried again with the next strategy, in the
\* fixed order of Strategies; the run fails only when the download under
\* every strategy has failed.
C32_NextStrategyAfterFailure ==
  [][\A r \in RunIds :
       (PipelineDownloadResponse(r, "fails") /\ runs[r].downloads < Len(Strategies))
         => /\ runs'[r].pc = "download"
            /\ runs'[r].downloads = runs[r].downloads + 1]_vars

\* C33: a download whose body is not a text string does not abort the run:
\* the run goes on to a structured fallback feedback, which is dispatched, and
\* the request is answered 200.
C33_NonStringBodyDegrades ==
  [][\A r \in RunIds :
       PipelineDownloadResponse(r, "object")
         => /\ ~runs'[r].failed
            /\ runs'[r].pc = "done"
                 => /\ Reached(runs'[r], "dispatch")
                    /\ runs'[r].feedback = "fallback"
                    /\ runs'[r].status = 200]_vars

----------------------------------------------------------------------------
(* The token cache under failures, overlapping calls and short lifetimes
   (TokenSpec) *)

\* call c enters getZoomAccessToken in this step
Enters(c) == calls[c].pc # "awaiting" /\ calls'[c] # calls[c]
\* the request of call c is answered in this step, with a failure or a token
Fails(c) == calls[c].pc = "awaiting" /\ calls'[c].pc = "threw"
Succeeds(c) == calls[c].pc = "awaiting" /\ calls'[c].pc = "returned"

\* C34: a call without forceRefresh that fails, at its entry or at the answer
\* of the token endpoint, leaves the cache as it was; a call with forceRefresh
\* has emptied the cache on entry, whatever it held and also when it stops for
\* missing credentials, and its failure leaves the cache as it is; a forced
\* call that failed with no other call in flight has left the cache empty.
C34_FailedCallAndCache ==
  [][\A c \in CallIds :
       /\ (Enters(c) /\ ~calls'[c].forceRefresh /\ calls'[c].pc # "returned")
            => zoomAccessTokenCache' = zoomAccessTokenCache
       /\ (Enters(c) /\ calls'[c].forceRefresh)
            => /\ zoomAccessTokenCache' = EmptyCache
               /\ CredentialsMissing => calls'[c].pc = "threw"
       /\ Fails(c) => zoomAccessTokenCache' = zoomAccessTokenCache
       /\ ( /\ Fails(c) /\ calls[c].forceRefresh
            /\ \A q \in CallIds \ {c} : calls[q].pc = "idle" )
            => zoomAccessTokenCache' = EmptyCache]_vars

\* a call has returned a token, which the cache then held, and a forced call
\* whose request failed has left the cache empty
C34_Witness ==
  /\ calls[2].pc = "returned" /\ calls[2].result \in Tokens
  /\ calls[1].pc = "threw" /\ calls[1].forceRefresh /\ calls[1].requests = 1
  /\ zoomAccessTokenCache = EmptyCache

\* the cache holds the token and the expiry computed from the one response
\* recorded in grant
FromOneResponse(cache) ==
  /\ cache.token = grant.access_token
  /\ cache.expiresAt
       = grant.at + ((grant.expires_in - SafetyBufferSeconds) * MsPerSecond)

\* C35: under every interleaving of calls the cache is empty or holds the
\* token and the expiry of one successful response; a response that succeeds
\* replaces the cache by its own pair, and no other step writes anything but
\* the empty cache, so that after the calls have ended the cache holds the pair
\* of the last successful response or is empty.
C35_CacheNeverMixed ==
  [][/\ zoomAccessTokenCache' = EmptyCache \/ FromOneResponse(zoomAccessTokenCache)'
     /\ \A c \in CallIds :
          /\ Succeeds(c)
               => /\ grant'.at = now
                  /\ zoomAccessTokenCache'.token = calls'[c].result
                  /\ FromOneResponse(zoomAccessTokenCache)'
          /\ ~(\E q \in CallIds : Succeeds(q))
               => zoomAccessTokenCache' \in {zoomAccessTokenCache, EmptyCache}]_vars

\* two calls overlapped and were answered with different tokens at different
\* times; the cache holds the pair of the one answered last
C35_Witness ==
  /\ calls[1].pc = "returned" /\ calls[1].requests = 1
  /\ calls[2].pc = "returned" /\ calls[2].requests = 1
  /\ calls[1].result # calls[2].result
  /\ zoomAccessTokenCache.token = calls[1].result
  /\ grant.at = now /\ now > 0
  /\ zoomAccessTokenCache.expiresAt
       = now + ((grant.expires_in - SafetyBufferSeconds) * MsPerSecond)

\* C38: a response whose expires_in is 300 seconds or less is cached with an
\* expiry not later than the time of caching; while the cache holds it, every
\* call that enters, forced or not, sends a new token request.
C38_ShortLifetimeNeverServed ==
  [][\A c \in CallIds :
       /\ (Succeeds(c) /\ grant'.expires_in <= SafetyBufferSeconds)
            => zoomAccessTokenCache'.expiresAt <= now
       /\ ( /\ Enters(c)
            /\ grant # NoGrant /\ grant.expires_in <= SafetyBufferSeconds
            /\ FromOneResponse(zoomAccessTokenCache) )
            => /\ calls'[c].pc = "awaiting"
               /\ calls'[c].requests = 1]_vars

\* the cache holds a token of a 299 second grant, with an expiry before the
\* time of caching, and an unforced call made at that same time has sent a
\* request
C38_Witness ==
  /\ grant.expires_in = 299 /\ grant.at = now
  /\ zoomAccessTokenCache.token \in Tokens
  /\ zoomAccessTokenCache.expiresAt < grant.at
  /\ \E c \in CallIds :
       calls[c].pc = "awaiting" /\ ~calls[c].forceRefresh /\ calls[c].requests = 1

----------------------------------------------------------------------------
(* The participant list of one run (MeetingSpec) *)

\* C36: the list a run passes to sendFeedbackToParticipants is the list it
\* passed to generateFeedback, and that list does not change while the run is
\* suspended in generateFeedback, whatever join and leave events are handled
\* in between.
C36_OneListPerRun ==
  [][\A r \in RunIds :
       /\ (~Reached(runs[r], "dispatch") /\ Reached(runs'[r], "dispatch"))
            => /\ runs'[r].recipients = runs'[r].roster
               /\ runs'[r].roster # NoRoster
       /\ runs[r].pc = "chat" => runs'[r].roster = runs[r].roster
       /\ ~Reached(runs'[r], "dispatch") => runs'[r].recipients = NoRoster]_vars

\* a join event was handled after the transcript event of the only run, which
\* then received its chat completion and dispatched to the list of its
\* payload, while the registry holds the participant that joined
C36_Witness ==
  /\ runs[1].pc = "done" /\ Reached(runs[1], "dispatch") /\ runs[1].chats = 1
  /\ runs[1].roster = <<>> /\ runs[1].recipients = <<>>
  /\ runs[2].pc = "idle"
  /\ last.handler = "participant" /\ last.status = 200
  /\ BodyOf(last.req).event = EvJoined
  /\ ParticipantsOf(meetingParticipants, "m1") = <<"p1">>

----------------------------------------------------------------------------
(* A transcript event without a transcript file (Spec) *)

\* the step is the arrival of a request: no suspended run is resumed in it
Arrival == \A q \in RunIds : runs[q].pc \in {"token", "download", "chat"} => runs'[q] = runs[q]

----------------------------------------------------------------------------
(* The webhook secret left unset (VerifySpec) *)

\* C39: when the webhook secret is not configured the empty string is the
\* key: a request for an event other than URL validation that carries a
\* timestamp and the signature of "v0:{timestamp}:{rawBody}" under the empty
\* key is not answered 401 and its event reaches the handler of its kind,
\* whoever sent it; a URL-validation challenge is answered 200 with the digest
\* of its plainToken under the empty key.
C39_UnsetSecretIsEmptyKey ==
  [][LET req == last'.req
         body == BodyOf(req)
     IN
       (env.secret = "" /\ Arrival /\ req.raw.present)
       => /\ ( /\ body.event # EvValidation
               /\ TruthyTs(req.timestamp)
               /\ req.signature
                    = SigValue("v0=", HMAC("", <<"v0", ":">> \o req.timestamp.v
                                                 \o <<":">> \o req.raw.v)) )
              => /\ last'.status # 401
                 /\ body.payload = "ok" => last'.status \in {0, 200}
                 /\ body.event \in {EvJoined, EvLeft} => last'.handler = "participant"
                 /\ body.event = EvRecording => last'.handler = "recording"
                 /\ body.event = EvTranscript => last'.handler = "transcript"
                 /\ body.event = EvOther => last'.handler = "unhandled"
          /\ ( /\ body.event = EvValidation
               /\ body.payload = "ok" /\ body.plainToken.present
               /\ body.plainToken.v # <<>> )
              => /\ last'.status = 200
                 /\ last'.body.encryptedToken = HMAC("", body.plainToken.v)]_vars

\* without a secret, a transcript event that an outside sender signed under
\* the empty key has started a pipeline run
C39_Witness ==
  /\ env.secret = ""
  /\ last.req.by = "outsider"
  /\ last.req.signature = sendWebhookEvent_signature("", <<"1">>, PipelineRaw)
  /\ last.handler = "transcript"
  /\ \E r \in RunIds : runs[r].pc = "token" /\ runs[r].tokenRequests = 1

====
